---- MODULE Spec2Model ----
(***************************************************************************)
(* Model of ggpa/mcts_bot.py: the Monte-Carlo tree search node (TreeNode)   *)
(* and the agent that drives it (MCTSAgent.choose_card).                   *)
(*                                                                         *)
(* Numbers.  A rollout value is kept as an integer count of 1/Unit, where  *)
(* Unit == 3 * Scale and the engine's score() and health() are counts of   *)
(* 1/Scale.  A mean (TreeNode.sc) is an exact fraction of such counts, in  *)
(* lowest terms.  The upper-confidence weight of line 86 is irrational; it *)
(* is kept in millionths, with sqrt(log(N/n)) read from a table.  Python's *)
(* floats are replaced by these exact values: two means tie here exactly   *)
(* when the fractions are equal.                                           *)
(*                                                                         *)
(* print_tree (lines 55-60) only prints and is left out, with verbose.     *)
(*                                                                         *)
(* The battle engine (BattleState) is outside the file: it is modelled as  *)
(* a small stochastic game given by tables, with a hidden part that        *)
(* copy_undeterministic redraws.                                           *)
(***************************************************************************)
EXTENDS Integers, Sequences, FiniteSets, Bags, TLC

(* ------------------------------ bounds --------------------------------- *)

\* largest iteration budget (MCTSAgent.iterations) explored
MaxIter == 5

\* score() and health() of the engine are k/Scale for k in 0..Scale
Scale == 2

Unit == 3 * Scale

\* values of the exploration parameter explored, in thousandths
Params == {0, 500}

(* --------------------- the battle engine (external) -------------------- *)

Hidden == {0, 1}

StartPos == {"ab", "single", "r", "y"}

\* legal actions (by key) of a position, in enumeration order
GetActions(pos) ==
    CASE pos = "ab"     -> <<"A", "B">>
      [] pos = "single" -> <<"E">>
      [] pos = "r"      -> <<"A", "B">>
      [] pos = "x"      -> <<"A", "B">>
      [] pos = "y"      -> <<"C", "B">>
      [] pos = "z"      -> <<"B", "A">>
      [] OTHER          -> <<>>

\* successor position of playing action a; hid resolves the hidden draw
StepPos(pos, a, hid) ==
    CASE pos = "ab" /\ a = "A"     -> "W"
      [] pos = "ab" /\ a = "B"     -> IF hid = 0 THEN "L0" ELSE "L4"
      [] pos = "single"            -> "ab"
      [] pos = "r" /\ a = "A"      -> IF hid = 0 THEN "x" ELSE "y"
      [] pos = "r" /\ a = "B"      -> "z"
      [] pos = "x" /\ a = "A"      -> "W"
      [] pos = "x" /\ a = "B"      -> "L0"
      [] pos = "y" /\ a = "C"      -> IF hid = 0 THEN "W" ELSE "L3"
      [] pos = "y" /\ a = "B"      -> "L3"
      [] pos = "z" /\ a = "B"      -> "L3"
      [] pos = "z" /\ a = "A"      -> IF hid = 0 THEN "L0" ELSE "W"
      [] OTHER                     -> pos

Ended(pos) == pos \in {"W", "L0", "L3", "L4"}

\* 1 signals a win of the deciding side
EndResult(pos) == IF pos = "W" THEN 1 ELSE IF Ended(pos) THEN -1 ELSE 0

\* engine fitness, in 1/Scale
StateScore(pos) ==
    CASE pos = "W"  -> Scale
      [] pos = "L3" -> Scale
      [] pos = "L4" -> Scale
      [] pos = "L0" -> 0
      [] OTHER      -> 1

\* remaining health, in 1/Scale
Health(pos) ==
    CASE pos = "W"  -> 1
      [] pos = "L3" -> Scale - 1
      [] pos = "L4" -> Scale
      [] pos = "L0" -> 0
      [] OTHER      -> Scale

\* the independent realizations of a state: same position, hidden part redrawn
CopyUndeterministic(s) == {[pos |-> s.pos, hid |-> h] : h \in Hidden}

StateStep(s, a) == [pos |-> StepPos(s.pos, a, s.hid), hid |-> s.hid]

Range(f) == {f[k] : k \in DOMAIN f}

(* ------------------------------ fractions ------------------------------ *)

RECURSIVE GCD(_, _)
GCD(a, b) == IF b = 0 THEN a ELSE GCD(b, a % b)

Rat(n, d) == LET g == GCD(n, d) IN [num |-> n \div g, den |-> d \div g]

RECURSIVE Sum(_)
Sum(s) == IF s = <<>> THEN 0 ELSE s[1] + Sum(Tail(s))

\* sum(results)/len(results); on an empty list the division is 0/0, which
\* Python raises as ZeroDivisionError: no value of sc is ever 0/0
Mean(results) ==
    IF Len(results) = 0 THEN [num |-> 0, den |-> 0]
    ELSE Rat(Sum(results), Len(results))

\* the 0.5 a node is constructed with
Half == Rat(Unit, 2)

(* ------------------------------ TreeNode ------------------------------- *)

NewNode(p, parent) ==
    [children |-> <<>>, parent |-> parent, results |-> <<>>, param |-> p,
     sc |-> Half, action |-> "None", aname |-> "None"]

\* what score reads of a state: ended(), get_end_result(), score(), health()
View(s) ==
    [ended |-> Ended(s.pos), result |-> EndResult(s.pos),
     score |-> StateScore(s.pos), health |-> Health(s.pos)]

\* score without the win test of lines 130-132
Score_NoWin(v) == v.score + v.health

\* score with the "return 0" of line 133 active
Score_ZeroOnLoss(v) ==
    IF v.ended
    THEN IF v.result = 1 THEN Unit ELSE 0
    ELSE v.score + v.health

\* v is the view of the state; the value is in 1/Unit, so that
\* (score + health) / 3 is the count score + health
Score(v) ==
    IF v.ended
    THEN IF v.result = 1 THEN Unit ELSE v.score + v.health
    ELSE v.score + v.health

ScoreOf(s) == Score(View(s))

\* backpropagate folding the result into the cached mean instead of
\* recomputing the mean from results
RECURSIVE Backpropagate_Running(_, _, _)
Backpropagate_Running(t, n, result) ==
    LET r  == Append(t[n].results, result)
        t1 == [t EXCEPT ![n].results = r,
                        ![n].sc = Rat(@.num + result * @.den, 2 * @.den)]
    IN  IF t[n].parent # 0 THEN Backpropagate_Running(t1, t[n].parent, result) ELSE t1

\* backpropagate handing the parent the complement of the result
RECURSIVE Backpropagate_Flipped(_, _, _)
Backpropagate_Flipped(t, n, result) ==
    LET r  == Append(t[n].results, result)
        t1 == [t EXCEPT ![n].results = r, ![n].sc = Mean(r)]
    IN  IF t[n].parent # 0
        THEN Backpropagate_Flipped(t1, t[n].parent, Unit - result)
        ELSE t1

\* backpropagate without the recursion of lines 123-124
Backpropagate_NoParent(t, n, result) ==
    [t EXCEPT ![n].results = Append(@, result),
              ![n].sc = Mean(Append(t[n].results, result))]

\* lines 120-124 on node n of tree t; self is the tree as the call finds it
\* and k the node, each bound once per call
RECURSIVE Backpropagate(_, _, _)
Backpropagate(t, n, result) ==
    CHOOSE out \in
        { LET r  == Append(self[k].results, result)
              t1 == [self EXCEPT ![k].results = r, ![k].sc = Mean(r)]
          IN  IF self[k].parent # 0
              THEN Backpropagate(t1, self[k].parent, result)
              ELSE t1
          : self \in {t}, k \in {n} } : TRUE

\* the terminal states a uniformly random playout from s can end in
RECURSIVE Rollout(_)
Rollout(s) ==
    IF Ended(s.pos) THEN {s}
    ELSE UNION {Rollout(StateStep(s, a)) : a \in Range(GetActions(s.pos))}

\* expand constructing the child as TreeNode(self.param), without self
AddChild_NoParent(t, n, choice) ==
    Append([t EXCEPT ![n].children = (choice :> (Len(t) + 1)) @@ @],
           [NewNode(t[n].param, 0) EXCEPT !.action = choice, !.aname = choice])

\* the tree after expand has linked a new child of n under key choice
AddChild(t, n, choice) ==
    Append([t EXCEPT ![n].children = (choice :> (Len(t) + 1)) @@ @],
           [NewNode(t[n].param, n) EXCEPT !.action = choice, !.aname = choice])

\* actions of the realization without a child at n, in enumeration order
RECURSIVE Available(_, _, _)
Available(t, n, acts) ==
    IF acts = <<>> THEN <<>>
    ELSE IF Head(acts) \notin DOMAIN t[n].children
         THEN <<Head(acts)>> \o Available(t, n, Tail(acts))
         ELSE Available(t, n, Tail(acts))

\* actions of the realization with a child at n, in enumeration order
RECURSIVE Explored(_, _, _)
Explored(t, n, acts) ==
    IF acts = <<>> THEN <<>>
    ELSE IF Head(acts) \in DOMAIN t[n].children
         THEN <<Head(acts)>> \o Explored(t, n, Tail(acts))
         ELSE Explored(t, n, Tail(acts))

\* round(sqrt(log(N/n)) * 10^6) at [N][n], for 1 <= n <= N
SqrtLogTable ==
    << <<0, 0, 0, 0, 0, 0, 0>>,
       <<832555, 0, 0, 0, 0, 0, 0>>,
       <<1048147, 636761, 0, 0, 0, 0, 0>>,
       <<1177410, 832555, 536360, 0, 0, 0, 0>>,
       <<1268636, 957231, 714721, 472381, 0, 0, 0>>,
       <<1338566, 1048147, 832555, 636761, 426991, 0, 0>>,
       <<1394959, 1119269, 920488, 748075, 580062, 392620, 0>> >>

\* a mean, in millionths
ScMicro(sc) == (sc.num * 1000000) \div (Unit * sc.den)

\* line 86 with the visit ratio upside down
UCB_Swapped(t, n, c) ==
    LET N == Len(t[n].results)
        m == Len(t[c].results)
    IN  IF N = 0 THEN [raised |-> "ZeroDivisionError", w |-> 0]
        ELSE IF m < N THEN [raised |-> "ValueError", w |-> 0]
        ELSE [raised |-> "None",
              w |-> ScMicro(t[c].sc) + (t[n].param * SqrtLogTable[m][N]) \div 1000]

\* c.sc + self.param * math.sqrt(math.log(len(self.results) / len(c.results)))
\* in millionths, or the exception the expression raises
UCB(t, n, c) ==
    LET N == Len(t[n].results)
        m == Len(t[c].results)
    IN  IF m = 0 THEN [raised |-> "ZeroDivisionError", w |-> 0]
        ELSE IF N < m THEN [raised |-> "ValueError", w |-> 0]
        ELSE [raised |-> "None",
              w |-> ScMicro(t[c].sc) + (t[n].param * SqrtLogTable[N][m]) \div 1000]

\* the loop of select with >= at line 87: the last maximal child wins
RECURSIVE SelectLoop_LastWins(_, _, _, _, _)
SelectLoop_LastWins(t, n, acts, k, acc) ==
    IF k > Len(acts) \/ acc.raised # "None" THEN acc
    ELSE IF acts[k] \notin DOMAIN t[n].children
         THEN [acc EXCEPT !.raised = "KeyError"]
    ELSE LET c == t[n].children[acts[k]]
             u == UCB(t, n, c)
         IN  IF u.raised # "None" THEN [acc EXCEPT !.raised = u.raised]
             ELSE IF u.w >= acc.cmax_weight
                  THEN SelectLoop_LastWins(t, n, acts, k + 1,
                         [acc EXCEPT !.amax = acts[k], !.cmax = c,
                                     !.cmax_weight = u.w])
                  ELSE SelectLoop_LastWins(t, n, acts, k + 1, acc)

\* the loop of select over the realization's actions, from index k on;
\* acc carries amax, cmax and cmax_weight
RECURSIVE SelectLoop(_, _, _, _, _)
SelectLoop(t, n, acts, k, acc) ==
    IF k > Len(acts) \/ acc.raised # "None" THEN acc
    ELSE IF acts[k] \notin DOMAIN t[n].children
         THEN [acc EXCEPT !.raised = "KeyError"]
    ELSE LET c == t[n].children[acts[k]]
             u == UCB(t, n, c)
         IN  IF u.raised # "None" THEN [acc EXCEPT !.raised = u.raised]
             ELSE IF u.w > acc.cmax_weight
                  THEN SelectLoop(t, n, acts, k + 1,
                         [acc EXCEPT !.amax = acts[k], !.cmax = c,
                                     !.cmax_weight = u.w])
                  ELSE SelectLoop(t, n, acts, k + 1, acc)

SelectBest(t, n, acts) ==
    SelectLoop(t, n, acts, 1,
               [raised |-> "None", amax |-> "None", cmax |-> 0,
                cmax_weight |-> -1000000])

\* the loop of get_best weighing a child by its visit count, not its mean
RECURSIVE GetBestLoop_Visits(_, _, _, _)
GetBestLoop_Visits(t, acts, k, acc) ==
    IF k > Len(acts) THEN acc
    ELSE IF acts[k] \in DOMAIN t[1].children
              /\ Len(t[t[1].children[acts[k]]].results) > acc.cmax_weight
         THEN GetBestLoop_Visits(t, acts, k + 1,
                [amax |-> acts[k],
                 cmax_weight |-> Len(t[t[1].children[acts[k]]].results)])
         ELSE GetBestLoop_Visits(t, acts, k + 1, acc)

\* the loop of get_best over the state's actions, from index k on
RECURSIVE GetBestLoop(_, _, _, _)
GetBestLoop(t, acts, k, acc) ==
    IF k > Len(acts) THEN acc
    ELSE IF acts[k] \in DOMAIN t[1].children
              /\ ScMicro(t[t[1].children[acts[k]]].sc) > acc.cmax_weight
         THEN GetBestLoop(t, acts, k + 1,
                [amax |-> acts[k],
                 cmax_weight |-> ScMicro(t[t[1].children[acts[k]]].sc)])
         ELSE GetBestLoop(t, acts, k + 1, acc)

\* get_best without its line 51: amax is returned even when it is None
GetBest_None(t, s) ==
    {GetBestLoop(t, GetActions(s.pos), 1,
                 [amax |-> "None", cmax_weight |-> -1000000]).amax}

\* the actions get_best may return: amax, or any legal action when amax is None
GetBest(t, s) ==
    LET acc == GetBestLoop(t, GetActions(s.pos), 1,
                           [amax |-> "None", cmax_weight |-> -1000000])
    IN  IF acc.amax # "None" THEN {acc.amax} ELSE Range(GetActions(s.pos))

\* TRUE when get_best leaves its loop with amax still None
GetBestFallsBack(t, s) ==
    GetBestLoop(t, GetActions(s.pos), 1,
                [amax |-> "None", cmax_weight |-> -1000000]).amax = "None"

(* ------------------------------- state --------------------------------- *)

VARIABLES
    pc,          \* where choose_card is: "start", "loop", "select", "done", "raised"
    iterations,  \* MCTSAgent.iterations
    param,       \* MCTSAgent.param, in thousandths
    battle,      \* the battle_state passed to choose_card
    tree,        \* the TreeNodes constructed so far, the root t first; a node is its index
    i,           \* step calls completed by the loop of choose_card
    cur,         \* the node whose select is running
    st,          \* the state passed to that select
    returned,    \* the action choose_card returned, "None" before
    warned,      \* the WARNING line has been printed
    raised,      \* the exception that escaped, "None" if none
    fallback,    \* get_best returned through its random.choice
    scoreIn,     \* the view of the state of the last call of score
    scoreOut,    \* the value that call returned, -1 before any call
    bp,          \* the last call of backpropagate made by select or rollout
    sel,         \* the last choice of a child made by select in this iteration
    exp,         \* the last expand of this iteration: the realization select
                 \* enumerated, the one the choice was applied to, the choice
    ends         \* per node, the selects that reached it with an ended state

vars == <<pc, iterations, param, battle, tree, i, cur, st, returned, warned,
          raised, fallback, scoreIn, scoreOut, bp, sel, exp, ends>>

NoExp == [node |-> 0, enumerated |-> [pos |-> "None", hid |-> 0],
          applied |-> [pos |-> "None", hid |-> 0], choice |-> "None"]

NoSel == [node |-> 0, acts |-> <<>>, amax |-> "None", cmax |-> 0]

Init ==
    /\ pc = "start"
    /\ iterations \in 0..MaxIter
    /\ param \in Params
    /\ battle \in {[pos |-> p, hid |-> h] : p \in StartPos, h \in Hidden}
    /\ tree = <<>>
    /\ i = 0
    /\ cur = 0
    /\ st = battle
    /\ returned = "None"
    /\ warned = FALSE
    /\ raised = "None"
    /\ fallback = FALSE
    /\ scoreIn = View(battle)
    /\ scoreOut = -1
    /\ bp = [node |-> 0, value |-> 0, calls |-> 0]
    /\ sel = NoSel
    /\ exp = NoExp
    /\ ends = EmptyBag

(* --------------------------- MCTSAgent.choose_card --------------------- *)

\* choose_card without the shortcut of lines 147-148
ChooseCardBegin_NoShortcut ==
    /\ pc = "start"
    /\ tree' = <<NewNode(param, 0)>>
    /\ pc' = "loop"
    /\ UNCHANGED <<iterations, param, battle, i, cur, st, returned, warned,
                   raised, fallback, scoreIn, scoreOut, bp, sel, exp, ends>>

\* lines 146-150: the single-action shortcut, else the root is constructed
ChooseCardBegin ==
    /\ pc = "start"
    /\ LET actions == GetActions(battle.pos)
       IN  IF Len(actions) = 1
           THEN /\ returned' = actions[1]
                /\ pc' = "done"
                /\ tree' = tree
           ELSE /\ tree' = <<NewNode(param, 0)>>
                /\ pc' = "loop"
                /\ returned' = returned
    /\ UNCHANGED <<iterations, param, battle, i, cur, st, warned, raised,
                   fallback, scoreIn, scoreOut, bp, sel, exp, ends>>

\* lines 153-155 and 31-32: one more iteration starts on a fresh resample
LoopStep ==
    /\ pc = "loop"
    /\ i < iterations
    /\ \E sample_state \in CopyUndeterministic(battle) :
           /\ st' = sample_state
           /\ cur' = 1
           /\ pc' = "select"
    /\ sel' = NoSel
    /\ exp' = NoExp
    /\ UNCHANGED <<iterations, param, battle, tree, i, returned, warned, raised,
                   fallback, scoreIn, scoreOut, bp, ends>>

\* select returning on an ended state without recording its score
SelectEnded_NoBackprop ==
    /\ pc = "select"
    /\ Ended(st.pos)
    /\ i' = i + 1
    /\ pc' = "loop"
    /\ ends' = ends (+) SetToBag({cur})
    /\ UNCHANGED <<iterations, param, battle, tree, cur, st, returned, warned,
                   raised, fallback, scoreIn, scoreOut, bp, sel, exp>>

\* lines 69-71: select on an ended state backpropagates its score
SelectEnded ==
    /\ pc = "select"
    /\ Ended(st.pos)
    /\ tree' = Backpropagate(tree, cur, ScoreOf(st))
    /\ bp' = [node |-> cur, value |-> ScoreOf(st), calls |-> bp.calls + 1]
    /\ scoreIn' = View(st)
    /\ scoreOut' = ScoreOf(st)
    /\ ends' = ends (+) SetToBag({cur})
    /\ i' = i + 1
    /\ pc' = "loop"
    /\ UNCHANGED <<iterations, param, battle, cur, st, returned, warned, raised,
                   fallback, sel, exp>>

\* expand linking the new child without rolling out from it
SelectExpand_NoRollout ==
    /\ pc = "select"
    /\ ~Ended(st.pos)
    /\ \E statecopy \in CopyUndeterministic(st) :
         LET available == Available(tree, cur, GetActions(statecopy.pos))
         IN  /\ Len(available) > 0
             /\ \E statecopy2 \in CopyUndeterministic(statecopy) :
                \E choice \in Range(available) :
                    /\ tree' = AddChild(tree, cur, choice)
                    /\ exp' = [node |-> cur, enumerated |-> statecopy,
                               applied |-> statecopy2, choice |-> choice]
    /\ i' = i + 1
    /\ pc' = "loop"
    /\ UNCHANGED <<iterations, param, battle, cur, st, returned, warned, raised,
                   fallback, scoreIn, scoreOut, bp, sel, ends>>

\* expand choosing among all the actions of the realization, explored or not
SelectExpand_AnyAction ==
    /\ pc = "select"
    /\ ~Ended(st.pos)
    /\ \E statecopy \in CopyUndeterministic(st) :
         LET available == Available(tree, cur, GetActions(statecopy.pos))
         IN  /\ Len(available) > 0
             /\ \E statecopy2 \in CopyUndeterministic(statecopy) :
                \E choice \in Range(GetActions(statecopy.pos)) :
                \E final \in Rollout(StateStep(statecopy2, choice)) :
                    /\ tree' = Backpropagate(AddChild(tree, cur, choice),
                                             Len(tree) + 1, ScoreOf(final))
                    /\ bp' = [node |-> Len(tree) + 1, value |-> ScoreOf(final),
                              calls |-> bp.calls + 1]
                    /\ scoreIn' = View(final)
                    /\ scoreOut' = ScoreOf(final)
                    /\ exp' = [node |-> cur, enumerated |-> statecopy,
                               applied |-> statecopy2, choice |-> choice]
    /\ i' = i + 1
    /\ pc' = "loop"
    /\ UNCHANGED <<iterations, param, battle, cur, st, returned, warned, raised,
                   fallback, sel, ends>>

\* lines 72-80 and 98-114: some action of the realization has no child;
\* expand links one, plays it on a further resample and rolls out
SelectExpand ==
    /\ pc = "select"
    /\ ~Ended(st.pos)
    /\ \E statecopy \in CopyUndeterministic(st) :
         LET available == Available(tree, cur, GetActions(statecopy.pos))
         IN  /\ Len(available) > 0
             /\ \E statecopy2 \in CopyUndeterministic(statecopy) :
                \E choice \in Range(available) :
                \E final \in Rollout(StateStep(statecopy2, choice)) :
                    /\ tree' = Backpropagate(AddChild(tree, cur, choice),
                                             Len(tree) + 1, ScoreOf(final))
                    /\ bp' = [node |-> Len(tree) + 1, value |-> ScoreOf(final),
                              calls |-> bp.calls + 1]
                    /\ scoreIn' = View(final)
                    /\ scoreOut' = ScoreOf(final)
                    /\ exp' = [node |-> cur, enumerated |-> statecopy,
                               applied |-> statecopy2, choice |-> choice]
    /\ i' = i + 1
    /\ pc' = "loop"
    /\ UNCHANGED <<iterations, param, battle, cur, st, returned, warned, raised,
                   fallback, sel, ends>>

\* select descending as soon as some action of the realization has a child,
\* choosing among the actions that have one
SelectDescend_Early ==
    /\ pc = "select"
    /\ ~Ended(st.pos)
    /\ \E statecopy \in CopyUndeterministic(st) :
         LET acts == Explored(tree, cur, GetActions(statecopy.pos))
             best == SelectBest(tree, cur, acts)
         IN  /\ Len(acts) > 0
             /\ IF best.raised # "None"
                THEN /\ raised' = best.raised
                     /\ pc' = "raised"
                     /\ UNCHANGED <<cur, st, sel>>
                ELSE IF best.amax = "None"
                THEN /\ raised' = "AttributeError"
                     /\ pc' = "raised"
                     /\ UNCHANGED <<cur, st, sel>>
                ELSE /\ sel' = [node |-> cur, acts |-> acts,
                                amax |-> best.amax, cmax |-> best.cmax]
                     /\ st' = StateStep(statecopy, best.amax)
                     /\ cur' = best.cmax
                     /\ pc' = "select"
                     /\ raised' = raised
    /\ UNCHANGED <<iterations, param, battle, tree, i, returned, warned,
                   fallback, scoreIn, scoreOut, bp, exp, ends>>

\* lines 72-92: every action of the realization has a child; the best one by
\* upper-confidence weight is played and select recurses into its node
SelectDescend ==
    /\ pc = "select"
    /\ ~Ended(st.pos)
    /\ \E statecopy \in CopyUndeterministic(st) :
         LET acts == GetActions(statecopy.pos)
             best == SelectBest(tree, cur, acts)
         IN  /\ Len(Available(tree, cur, acts)) = 0
             /\ IF best.raised # "None"
                THEN /\ raised' = best.raised
                     /\ pc' = "raised"
                     /\ UNCHANGED <<cur, st, sel>>
                ELSE IF best.amax = "None"
                THEN /\ raised' = "AttributeError"
                     /\ pc' = "raised"
                     /\ UNCHANGED <<cur, st, sel>>
                ELSE /\ sel' = [node |-> cur, acts |-> acts,
                                amax |-> best.amax, cmax |-> best.cmax]
                     /\ st' = StateStep(statecopy, best.amax)
                     /\ cur' = best.cmax
                     /\ pc' = "select"
                     /\ raised' = raised
    /\ UNCHANGED <<iterations, param, battle, tree, i, returned, warned,
                   fallback, scoreIn, scoreOut, bp, exp, ends>>

\* choose_card leaving its loop before the budget is spent
ChooseCardEnd_Early ==
    /\ pc = "loop"
    /\ i <= iterations
    /\ fallback' = GetBestFallsBack(tree, battle)
    /\ \E best_action \in GetBest(tree, battle) :
           IF best_action = "None"
           THEN /\ warned' = TRUE
                /\ returned' \in Range(GetActions(battle.pos))
           ELSE /\ warned' = warned
                /\ returned' = best_action
    /\ pc' = "done"
    /\ UNCHANGED <<iterations, param, battle, tree, i, cur, st, raised,
                   scoreIn, scoreOut, bp, sel, exp, ends>>

\* lines 157-164: the budget is spent; get_best on the unresampled state
ChooseCardEnd ==
    /\ pc = "loop"
    /\ i = iterations
    /\ fallback' = GetBestFallsBack(tree, battle)
    /\ \E best_action \in GetBest(tree, battle) :
           IF best_action = "None"
           THEN /\ warned' = TRUE
                /\ returned' \in Range(GetActions(battle.pos))
           ELSE /\ warned' = warned
                /\ returned' = best_action
    /\ pc' = "done"
    /\ UNCHANGED <<iterations, param, battle, tree, i, cur, st, raised,
                   scoreIn, scoreOut, bp, sel, exp, ends>>

Next ==
    \/ ChooseCardBegin
    \/ LoopStep
    \/ SelectEnded
    \/ SelectExpand
    \/ SelectDescend
    \/ ChooseCardEnd

Spec == Init /\ [][Next]_vars

\* choose_card is one synchronous thread: whatever statement is next runs
FairSpec == Spec /\ WF_vars(Next)

(* ------------------- TreeNode.score on its own inputs ------------------ *)

\* every view a state can present: ended or not, end result -1, 0 or 1,
\* score() and health() anywhere in [0, 1]
Views ==
    [ended : BOOLEAN, result : {-1, 0, 1}, score : 0..Scale, health : 0..Scale]

InitScore ==
    /\ pc = "score"
    /\ scoreIn \in Views
    /\ scoreOut = -1
    /\ iterations = 0
    /\ param = 0
    /\ battle = [pos |-> "W", hid |-> 0]
    /\ tree = <<>>
    /\ i = 0
    /\ cur = 0
    /\ st = battle
    /\ returned = "None"
    /\ warned = FALSE
    /\ raised = "None"
    /\ fallback = FALSE
    /\ bp = [node |-> 0, value |-> 0, calls |-> 0]
    /\ sel = NoSel
    /\ exp = NoExp
    /\ ends = EmptyBag

\* lines 129-134: one call of score
ScoreCall ==
    /\ pc = "score"
    /\ scoreOut = -1
    /\ scoreOut' = Score(scoreIn)
    /\ UNCHANGED <<pc, iterations, param, battle, tree, i, cur, st, returned,
                   warned, raised, fallback, scoreIn, bp, sel, exp, ends>>

NextScore == ScoreCall

SpecScore == InitScore /\ [][NextScore]_vars

(* ------------------------------ properties ----------------------------- *)

Legal == Range(GetActions(battle.pos))

Root == tree[1]

\* the legal actions of the current state that have a child at the root
WithChild == {a \in Legal : a \in DOMAIN Root.children}

ChildOf(a) == tree[Root.children[a]]

\* x >= y for fractions with positive denominators
RatGeq(x, y) == x.num * y.den >= y.num * x.den

RECURSIVE AncestorsOrSelf(_, _)
AncestorsOrSelf(t, n) ==
    IF n = 0 THEN {} ELSE {n} \cup AncestorsOrSelf(t, t[n].parent)

BagOf(seq) ==
    [v \in Range(seq) |-> Cardinality({k \in DOMAIN seq : seq[k] = v})]

\* C1: for every decision state with a legal action, every budget and every
\* random outcome, choose_card raises nothing, and what it returns is a legal
\* action of the unresampled state it was passed.
C1_ReturnsLegalAction ==
    /\ raised = "None"
    /\ pc # "raised"
    /\ pc = "done" => returned \in Legal

C1_Witness ==
    /\ pc = "done"
    /\ iterations >= 3
    /\ Len(tree) >= 3
    /\ sel.node # 0
    /\ returned \in Legal

\* C2: in the 1-ply game where A always wins and B always loses, after any
\* budget >= 2 on a fresh root, get_best returns A.
C2_WinBeatsLoss ==
    (pc = "done" /\ battle.pos = "ab" /\ iterations >= 2) => returned = "A"

C2_Witness ==
    /\ pc = "done"
    /\ battle.pos = "ab"
    /\ iterations >= 2
    /\ returned = "A"
    /\ "B" \in DOMAIN Root.children
    /\ ChildOf("B").sc = Rat(2 * Scale, 1)

\* C3: with exactly one legal action, choose_card returns it for every budget,
\* constructs no TreeNode and runs no step.
C3_SingleAction ==
    Len(GetActions(battle.pos)) = 1 =>
        /\ tree = <<>>
        /\ i = 0
        /\ pc \in {"start", "done"}
        /\ pc = "done" => returned = GetActions(battle.pos)[1]

C3_Witness ==
    /\ pc = "done"
    /\ Len(GetActions(battle.pos)) = 1
    /\ iterations >= 1
    /\ returned = "E"

\* C4 as stated: for every node, from its construction on, the cached mean
\* equals sum(results)/len(results).
C4_Original ==
    \A n \in DOMAIN tree : tree[n].sc = Mean(tree[n].results)

\* C4 amended: a node with at least one result caches sum(results)/len(results);
\* a node with no result yet caches the 0.5 it was constructed with.
C4_MeanCached ==
    \A n \in DOMAIN tree :
        IF Len(tree[n].results) = 0
        THEN tree[n].sc = Half
        ELSE tree[n].sc = Mean(tree[n].results)

C4_Witness ==
    \E n \in DOMAIN tree :
        /\ Len(tree[n].results) >= 3
        /\ tree[n].sc.den > 1
        /\ tree[n].sc = Mean(tree[n].results)

\* C5: a call backpropagate(v) on a node appends v, unchanged and once, to
\* the results of the node and of every ancestor up to the root, and touches
\* no other entry; so a node's results are a sub-multiset of its parent's.
C5_BackpropStep ==
    (tree # <<>> /\ tree' # tree) =>
        LET path == AncestorsOrSelf(tree', bp'.node)
            old(m) == IF m \in DOMAIN tree THEN tree[m].results ELSE <<>>
        IN  /\ bp'.calls = bp.calls + 1
            /\ 1 \in path
            /\ \A m \in DOMAIN tree' :
                   /\ tree'[m].results =
                          IF m \in path THEN Append(old(m), bp'.value) ELSE old(m)
                   /\ tree'[m].parent # 0 =>
                          BagOf(tree'[m].results) \sqsubseteq
                              BagOf(tree'[tree'[m].parent].results)

C5_BackpropAppends == [][C5_BackpropStep]_vars

C5_Witness ==
    /\ bp.calls >= 3
    /\ bp.node \in DOMAIN tree
    /\ tree[bp.node].parent > 1
    /\ Len(tree[1].results) = bp.calls

\* C6: each step on the root appends exactly one entry to the root's results
\* and creates at most one node; with budget 1 on a fresh root and a
\* non-terminal state, one node exists below the root and the root has one
\* result.
C6_StepAction ==
    /\ i' = i + 1 =>
          /\ Len(tree'[1].results) = Len(tree[1].results) + 1
          /\ Len(tree') \in {Len(tree), Len(tree) + 1}
    /\ (i' = i /\ tree # <<>>) => tree' = tree

C6_Between ==
    /\ pc \in {"loop", "done"} /\ tree # <<>> =>
          /\ Len(tree[1].results) = i
          /\ Len(tree) <= i + 1
    /\ (pc = "done" /\ tree # <<>> /\ iterations = 1 /\ ~Ended(battle.pos)) =>
          /\ Len(tree) = 2
          /\ tree[2].parent = 1
          /\ Len(tree[1].results) = 1

C6_OneStepOneResult == [][C6_StepAction]_vars /\ []C6_Between

C6_Witness ==
    /\ pc = "done"
    /\ iterations = 1
    /\ Len(tree) = 2
    /\ Len(tree[1].results) = 1

\* C7 as stated: when get_best finds no child of the root for any legal
\* action, choose_card prints the warning and returns a random legal action.
C7_Original ==
    (pc = "done" /\ tree # <<>> /\ WithChild = {}) =>
        (warned /\ returned \in Legal)

\* C7 amended: when get_best finds no child of the root for any legal action,
\* get_best itself returns a random legal action and choose_card returns it
\* with no warning; the warning is never printed.
C7_SilentFallback ==
    /\ ~warned
    /\ (pc = "done" /\ tree # <<>> /\ WithChild = {}) =>
           (fallback /\ returned \in Legal)

C7_Witness ==
    /\ pc = "done"
    /\ tree # <<>>
    /\ WithChild = {}
    /\ fallback
    /\ returned = GetActions(battle.pos)[2]

\* C8: when some legal action has a child at the root, get_best returns a
\* legal action whose child has the highest mean among the legal actions
\* with a child, whatever the visit counts; it falls back to a random legal
\* action only when no legal action has a child.
C8_BestMean ==
    (pc = "done" /\ tree # <<>>) =>
        IF WithChild # {}
        THEN /\ ~fallback
             /\ returned \in WithChild
             /\ \A b \in WithChild : RatGeq(ChildOf(returned).sc, ChildOf(b).sc)
        ELSE fallback

C8_Witness ==
    /\ pc = "done"
    /\ tree # <<>>
    /\ Cardinality(WithChild) = 2
    /\ returned = GetActions(battle.pos)[2]
    /\ \E b \in WithChild :
           /\ ~RatGeq(ChildOf(b).sc, ChildOf(returned).sc)
           /\ Len(ChildOf(b).results) > Len(ChildOf(returned).results)

\* C9: when every legal action of the realization has a child, select
\* descends into a child of maximal upper-confidence weight, the first in
\* enumeration order among those of maximal weight; a child is always chosen.
C9_FirstMaximal ==
    /\ raised # "AttributeError"
    /\ (pc = "select" /\ sel.node # 0) =>
          \E k \in DOMAIN sel.acts :
              LET w(j) == UCB(tree, sel.node, tree[sel.node].children[sel.acts[j]]).w
              IN  /\ sel.amax = sel.acts[k]
                  /\ sel.cmax = tree[sel.node].children[sel.amax]
                  /\ cur = sel.cmax
                  /\ \A j \in DOMAIN sel.acts :
                         /\ w(j) <= w(k)
                         /\ j < k => w(j) < w(k)

C9_Witness ==
    /\ pc = "select"
    /\ sel.node # 0
    /\ sel.acts = <<"C", "B">>
    /\ sel.amax = "C"
    /\ UCB(tree, sel.node, tree[sel.node].children["C"]).w =
           UCB(tree, sel.node, tree[sel.node].children["B"]).w

\* C10: score returns exactly 1 for an ended state whose end result signals
\* a win, and (score() + health()) / 3 for every other state, a loss
\* included; with score() and health() in [0, 1] the value is in [0, 1].
C10_Score ==
    scoreOut # -1 =>
        /\ (scoreIn.ended /\ scoreIn.result = 1) => scoreOut = Unit
        /\ ~(scoreIn.ended /\ scoreIn.result = 1) =>
               scoreOut = scoreIn.score + scoreIn.health
        /\ 0 <= scoreOut
        /\ scoreOut <= Unit

C10_Witness ==
    /\ scoreOut # -1
    /\ scoreIn.ended
    /\ scoreIn.result = -1
    /\ scoreIn.score = Scale
    /\ scoreIn.health = Scale
    /\ scoreOut = 2 * Scale

\* C11: whenever select evaluates the upper-confidence formula for a child,
\* the child's visit count is at least 1 and at most that of the selecting
\* node, so the logarithm's argument is >= 1 and neither a division by zero
\* nor a math-domain error is raised, after any iterations and resamplings.
C11_VisitsOrdered ==
    /\ raised \notin {"ZeroDivisionError", "ValueError"}
    /\ \A n \in DOMAIN tree : \A k \in DOMAIN tree[n].children :
           /\ Len(tree[tree[n].children[k]].results) >= 1
           /\ Len(tree[tree[n].children[k]].results) <= Len(tree[n].results)
    /\ (pc = "select" /\ sel.node # 0) =>
           \A j \in DOMAIN sel.acts :
               UCB(tree, sel.node, tree[sel.node].children[sel.acts[j]]).raised = "None"

C11_Witness ==
    /\ pc = "select"
    /\ sel.node > 1
    /\ \E j \in DOMAIN sel.acts :
           LET c == tree[sel.node].children[sel.acts[j]]
           IN  /\ Len(tree[c].results) >= 1
               /\ Len(tree[sel.node].results) > Len(tree[c].results)

\* C12: expand adds exactly one child per call, under an action key that had
\* no child at that node before; a child once under a key is never replaced
\* or removed, and rollout adds no node.
C12_ExpandStep ==
    tree # <<>> =>
        /\ \A n \in DOMAIN tree :
               /\ n \in DOMAIN tree'
               /\ \A k \in DOMAIN tree[n].children :
                      /\ k \in DOMAIN tree'[n].children
                      /\ tree'[n].children[k] = tree[n].children[k]
        /\ (pc = "select" /\ ~Ended(st.pos) /\ pc' = "loop") =>
               /\ Len(tree') = Len(tree) + 1
               /\ exp'.choice \notin DOMAIN tree[cur].children
               /\ DOMAIN tree'[cur].children =
                      DOMAIN tree[cur].children \cup {exp'.choice}
               /\ tree'[cur].children[exp'.choice] = Len(tree')
               /\ tree'[Len(tree')].children = <<>>
               /\ \A n \in DOMAIN tree :
                      n # cur => tree'[n].children = tree[n].children
        /\ ~(pc = "select" /\ ~Ended(st.pos) /\ pc' = "loop") =>
               /\ Len(tree') = Len(tree)
               /\ \A n \in DOMAIN tree : tree'[n].children = tree[n].children

C12_OneChildPerExpand == [][C12_ExpandStep]_vars

C12_Witness ==
    /\ Len(tree) >= 4
    /\ exp.node > 1
    /\ Cardinality(DOMAIN tree[exp.node].children) >= 2
    /\ tree[exp.node].children[exp.choice] = Len(tree)

\* C13 as stated: expand applies the chosen unexplored action to the very
\* realization from which select enumerated the unexplored actions, with no
\* resampling in between, so the action is legal in the state it is applied to.
C13_Original ==
    exp.node # 0 =>
        /\ exp.applied = exp.enumerated
        /\ exp.choice \in Range(GetActions(exp.applied.pos))

\* C14: in select on a non-terminal state, if the realization has a legal
\* action without a child at the current node, the iteration expands at that
\* node and descends into no child; descent happens only when every legal
\* action of the realization has a child.
C14_SelectStep ==
    (pc = "select" /\ ~Ended(st.pos) /\ pc' # "raised") =>
        IF Len(Available(tree, cur, GetActions(st.pos))) > 0
        THEN /\ pc' = "loop"
             /\ cur' = cur
             /\ sel' = sel
             /\ exp'.node = cur
             /\ Len(tree') = Len(tree) + 1
             /\ tree'[Len(tree')].parent = cur
             /\ tree'[cur].children[exp'.choice] = Len(tree')
        ELSE /\ pc' = "select"
             /\ tree' = tree
             /\ sel'.node = cur
             /\ cur' \in Range(tree[cur].children)
             /\ \A a \in Range(GetActions(st.pos)) : a \in DOMAIN tree[cur].children

C14_ExpandBeforeDescend == [][C14_SelectStep]_vars

C14_Witness ==
    /\ pc = "loop"
    /\ sel.node = 1
    /\ exp.node > 1
    /\ exp.node = sel.cmax
    /\ Cardinality(DOMAIN tree[exp.node].children) = 1

\* C15: every play of the game ends, so choose_card with more than one legal
\* action and budget N eventually returns, after exactly N step calls on the
\* root run one after the other, each with its backpropagation to the root
\* complete before the next begins and before get_best; there is no early exit.
C15_StepOrder ==
    /\ i' # i => (i' = i + 1 /\ pc = "select" /\ pc' = "loop")
    /\ (pc = "loop" /\ pc' = "select") => Len(tree[1].results) = i
    /\ (pc = "loop" /\ pc' = "done") =>
           (i = iterations /\ Len(tree[1].results) = iterations)

C15_Returned ==
    /\ pc = "done"
    /\ tree # <<>>
    /\ i = iterations
    /\ bp.calls = iterations
    /\ Len(tree[1].results) = iterations

C15_RunsWholeBudget ==
    /\ (pc = "start" /\ Len(GetActions(battle.pos)) > 1) ~> C15_Returned
    /\ []((pc = "done" /\ tree # <<>>) => C15_Returned)
    /\ [][C15_StepOrder]_vars

C15_Witness ==
    /\ pc = "done"
    /\ iterations >= 4
    /\ i = iterations
    /\ bp.calls = iterations
    /\ Len(tree) >= 4

RECURSIVE SumVisits(_, _)
SumVisits(t, S) ==
    IF S = {} THEN 0
    ELSE LET c == CHOOSE x \in S : TRUE
         IN  Len(t[c].results) + SumVisits(t, S \ {c})

\* C16: between iterations, the visit count of every node is the sum of its
\* children's visit counts, plus the iterations whose select reached the
\* node with an ended state, plus 1 for a node other than the root (its own
\* rollout); so the root's visit count is the number of completed iterations.
C16_VisitAccounting ==
    (pc \in {"loop", "done"} /\ tree # <<>>) =>
        /\ \A n \in DOMAIN tree :
               Len(tree[n].results) =
                   SumVisits(tree, Range(tree[n].children))
                   + CopiesIn(n, ends)
                   + (IF n = 1 THEN 0 ELSE 1)
        /\ Len(tree[1].results) = i

C16_Witness ==
    /\ pc = "loop"
    /\ i >= 4
    /\ \E n \in DOMAIN tree :
           /\ n # 1
           /\ CopiesIn(n, ends) >= 1
    /\ \E n \in DOMAIN tree :
           /\ n # 1
           /\ tree[n].children # <<>>
           /\ Len(tree[n].results) = SumVisits(tree, Range(tree[n].children)) + 1

\* C17: after any iterations the tree is well formed: the root has no parent
\* and no action key; a node stored under key k in the children of n has n
\* as its parent and k as its action key; every node carries the root's
\* exploration parameter.
C17_WellFormed ==
    tree # <<>> =>
        /\ tree[1].parent = 0
        /\ tree[1].action = "None"
        /\ \A n \in DOMAIN tree :
               /\ tree[n].param = tree[1].param
               /\ \A k \in DOMAIN tree[n].children :
                      /\ tree[n].children[k] \in DOMAIN tree
                      /\ tree[tree[n].children[k]].parent = n
                      /\ tree[tree[n].children[k]].action = k

C17_Witness ==
    /\ Len(tree) >= 5
    /\ \E n \in DOMAIN tree :
           /\ tree[n].parent > 1
           /\ tree[n].action = "C"
           /\ tree[tree[n].parent].children["C"] = n

====
